---- MODULE Spec2Model ----
(***************************************************************************)
(* Model of magmadnn's computation-graph node, op::Operation<T>            *)
(* (include/compute/operation.h), built with MAGMADNN_HAVE_CUDA.           *)
(*                                                                         *)
(* A node is identified by the order of its construction (1, 2, ...): the  *)
(* identity stands for the object's address, which is also the key of the  *)
(* gradient cache.  Addresses are never reused after a delete.             *)
(***************************************************************************)
EXTENDS Integers, Sequences, FiniteSets

(* ---- bounds of the model ---------------------------------------------- *)
MaxNodes == 3
MaxInputs == 2
NumCtx == 2
MaxGrads == 1
MaxDim == 2
NumThreads == 2

Node == 1..MaxNodes

(* ---- values ----------------------------------------------------------- *)
\* A bool member is true, false, or was never written by the constructor.
True == "true"
False == "false"
Indeterminate == "indeterminate"
Flag == {True, False, Indeterminate}

\* Tensor references.  A node's output tensor and the gradient tensors its
\* local gradient rule produces are distinct objects.
NULL == [kind |-> "null", op |-> 0, var |-> 0]
OutRef(n) == [kind |-> "out", op |-> n, var |-> 0]
GradRef(n, v) == [kind |-> "grad", op |-> n, var |-> v]
Upstream == [kind |-> "upstream", op |-> 0, var |-> 0]

\* The stream and the handles a node starts with.
nullptr == 0
SettingsCudnn == 20
SettingsCublas == 10

\* CudaExecContext values a client may apply: stream k, handles 10+k, 20+k.
ExecContexts == {[stream |-> k, cublas_handle |-> SettingsCublas + k,
                  cudnn_handle |-> SettingsCudnn + k] : k \in 1..NumCtx}

\* Error kinds of the specification; "none" when the call returned.
NoError == "none"
ForwardError == "UnsupportedMemoryLocation"
ShapeMismatch == "ShapeMismatch"

\* The shapes the builders are given: one or two dimensions of 1..MaxDim.
Shapes == UNION {[1..r -> 1..MaxDim] : r \in 1..2}

(* ---- state ------------------------------------------------------------ *)
VARIABLES
    heap,                   \* node -> "unallocated" | "live" | "freed"
    inputs,                 \* node -> sequence of nodes
    consumers,              \* node -> sequence of nodes
    needs_grad,             \* node -> Flag
    output_shape,           \* node -> sequence of dimensions
    has_been_computed,      \* node -> Flag
    has_grad_been_computed, \* node -> Flag
    output_tensor,          \* node -> NULL or a tensor with its context fields
    _grad_cache,            \* node -> function from keys (nodes) to references
    custream_,              \* node -> stream
    cudnn_handle_,          \* node -> handle
    cublas_handle_,         \* node -> handle
    async_,                 \* node -> BOOLEAN
    thread,                 \* thread -> the eval call it is running
    ub,                     \* undefined behaviour has happened
    call,                   \* the last operation a client called, with arguments
    ret,                    \* the reference it returned
    err,                    \* the error it raised
    eval_calls,             \* node -> forward-rule invocations during it
    grad_calls,             \* node -> local-gradient-rule invocations during it
    delete_calls            \* node -> destructor runs during it

graph == <<heap, inputs, consumers, needs_grad, output_shape>>
fwd == <<has_been_computed, output_tensor>>
bwd == <<has_grad_been_computed, _grad_cache>>
ctx == <<custream_, cudnn_handle_, cublas_handle_, async_>>
hist == <<call, ret, err, eval_calls, grad_calls, delete_calls>>
vars == <<graph, fwd, bwd, ctx, thread, ub, hist>>

(* ---- helpers ---------------------------------------------------------- *)
Zero == [n \in Node |-> 0]
Range(s) == {s[i] : i \in 1..Len(s)}
Live == {n \in Node : heap[n] = "live"}
Allocated == {n \in Node : heap[n] # "unallocated"}
NoCtx == [stream |-> nullptr, cublas_handle |-> nullptr, cudnn_handle |-> nullptr]
NoCall == [op |-> "none", node |-> 0, recompute |-> FALSE, var |-> 0,
           cuda_ctx |-> NoCtx]

\* The tensor value of a node's cache slot.
Tensor(n, s, h) == [id |-> OutRef(n), custream |-> s, cublas_handle |-> h]
NoTensor == [id |-> NULL, custream |-> nullptr, cublas_handle |-> nullptr]

\* Nodes reachable from n through input edges, n included.
RECURSIVE Reach(_)
Reach(n) == {n} \cup UNION {Reach(inputs[n][i]) : i \in 1..Len(inputs[n])}

\* Every input list a constructor call can be given over the live nodes.
InputLists == UNION {[1..k -> Live] : k \in 1..MaxInputs}

\* The members of every node, as one value the member functions transform.
Here == [heap |-> heap, inputs |-> inputs, consumers |-> consumers,
         needs_grad |-> needs_grad, output_shape |-> output_shape,
         has_been_computed |-> has_been_computed,
         has_grad_been_computed |-> has_grad_been_computed,
         output_tensor |-> output_tensor, _grad_cache |-> _grad_cache,
         custream_ |-> custream_, cudnn_handle_ |-> cudnn_handle_,
         cublas_handle_ |-> cublas_handle_, async_ |-> async_,
         ub |-> FALSE, ret |-> NULL, err |-> NoError,
         eval_calls |-> Zero, grad_calls |-> Zero, delete_calls |-> Zero]

\* Reading a bool member; an indeterminate one yields whatever is in memory.
Read(flag, garbage) == IF flag = Indeterminate THEN garbage ELSE flag = True

(* ---- execution-context propagation ------------------------------------ *)
\* Tensor::set_custream and Tensor::set_cublas_handle on a cached tensor.
tensor_set_custream(t, custream) == [t EXCEPT !.custream = custream]
tensor_set_cublas_handle(t, cublas_handle) ==
    [t EXCEPT !.cublas_handle = cublas_handle]

RECURSIVE set_custream(_, _, _)
set_custream(S, n, custream) ==
    LET RECURSIVE each(_, _)
        each(T, i) == IF i > Len(S.inputs[n]) THEN T
                      ELSE each(set_custream(T, S.inputs[n][i], custream), i + 1)
        T1 == each(S, 1)
        T2 == IF T1.output_tensor[n].id # NULL
              THEN [T1 EXCEPT !.output_tensor[n] = tensor_set_custream(@, custream)]
              ELSE T1
    IN  [T2 EXCEPT !.custream_[n] = custream]

\* set_cudnn_handle without the loop over the inputs.
set_cudnn_handle_shallow(S, n, cudnn_handle) ==
    [S EXCEPT !.cudnn_handle_[n] = cudnn_handle]

RECURSIVE set_cudnn_handle(_, _, _)
set_cudnn_handle(S, n, cudnn_handle) ==
    LET RECURSIVE each(_, _)
        each(T, i) == IF i > Len(S.inputs[n]) THEN T
                      ELSE each(set_cudnn_handle(T, S.inputs[n][i], cudnn_handle), i + 1)
        T1 == each(S, 1)
    IN  [T1 EXCEPT !.cudnn_handle_[n] = cudnn_handle]

\* set_cublas_handle that writes the nodes' members and no tensor.
RECURSIVE set_cublas_handle_node_only(_, _, _)
set_cublas_handle_node_only(S, n, cublas_handle) ==
    LET RECURSIVE each(_, _)
        each(T, i) ==
            IF i > Len(S.inputs[n]) THEN T
            ELSE each(set_cublas_handle_node_only(T, S.inputs[n][i], cublas_handle),
                      i + 1)
    IN  [each(S, 1) EXCEPT !.cublas_handle_[n] = cublas_handle]

RECURSIVE set_cublas_handle(_, _, _)
set_cublas_handle(S, n, cublas_handle) ==
    LET RECURSIVE each(_, _)
        each(T, i) == IF i > Len(S.inputs[n]) THEN T
                      ELSE each(set_cublas_handle(T, S.inputs[n][i], cublas_handle), i + 1)
        T1 == each(S, 1)
        T2 == IF T1.output_tensor[n].id # NULL
              THEN [T1 EXCEPT !.output_tensor[n] =
                                  tensor_set_cublas_handle(@, cublas_handle)]
              ELSE T1
    IN  [T2 EXCEPT !.cublas_handle_[n] = cublas_handle]

\* set_async that leaves the inputs alone.
set_async_shallow(S, n, async) == [S EXCEPT !.async_[n] = async]

RECURSIVE set_async(_, _, _)
set_async(S, n, async) ==
    LET RECURSIVE each(_, _)
        each(T, i) == IF i > Len(S.inputs[n]) THEN T
                      ELSE each(set_async(T, S.inputs[n][i], async), i + 1)
        T1 == each(S, 1)
    IN  [T1 EXCEPT !.async_[n] = async]

cuda_exec_context(S, n, cuda_ctx) ==
    LET T1 == set_custream(S, n, cuda_ctx.stream)
        T2 == set_cublas_handle(T1, n, cuda_ctx.cublas_handle)
    IN  set_cudnn_handle(T2, n, cuda_ctx.cudnn_handle)

\* The CUDA block both constructors end with.
default_context(S, n) ==
    LET T1 == set_custream(S, n, nullptr)
        T2 == set_cudnn_handle(T1, n, SettingsCudnn)
        T3 == set_cublas_handle(T2, n, SettingsCublas)
    IN  set_async(T3, n, FALSE)

(* ---- construction ----------------------------------------------------- *)
add_consumer(S, n, consumer) ==
    [S EXCEPT !.consumers[n] = Append(@, consumer)]

\* std::map::insert: an existing key keeps its value.
map_insert(m, k, v) ==
    IF k \in DOMAIN m THEN m ELSE [x \in DOMAIN m \cup {k} |-> IF x = k THEN v ELSE m[x]]

\* std::map::operator[]: a missing key is inserted with a null value.
map_index(m, k) == map_insert(m, k, NULL)

EmptyMap == [x \in {} |-> NULL]

\* Operation(): the members the default constructor writes.
new_leaf(S, n) ==
    LET T == [S EXCEPT !.heap[n] = "live",
                       !.inputs[n] = <<>>,
                       !.consumers[n] = <<>>,
                       !.needs_grad[n] = Indeterminate,
                       !.has_been_computed[n] = False,
                       !.has_grad_been_computed[n] = Indeterminate,
                       !.output_tensor[n] = NoTensor,
                       !._grad_cache[n] = EmptyMap]
    IN  default_context(T, n)

\* Operation(inputs, needs_grad) with the needs_grad test dropped: the node
\* registers as a consumer of every input.
new_op_always_consumer(S, n, ins, ng) ==
    LET T == [S EXCEPT !.heap[n] = "live",
                       !.inputs[n] = ins,
                       !.consumers[n] = <<>>,
                       !.needs_grad[n] = IF ng THEN True ELSE False,
                       !.has_been_computed[n] = Indeterminate,
                       !.has_grad_been_computed[n] = Indeterminate,
                       !.output_tensor[n] = NoTensor,
                       !._grad_cache[n] = EmptyMap]
        RECURSIVE each(_, _)
        each(U, i) ==
            IF i > Len(ins) THEN U
            ELSE LET U1 == add_consumer(U, ins[i], n)
                     U2 == [U1 EXCEPT !._grad_cache[n] = map_insert(@, ins[i], NULL)]
                 IN  each(U2, i + 1)
    IN  default_context(each(T, 1), n)

\* Operation(inputs, needs_grad) with the cache slot made inside the
\* needs_grad test: a node built with needs_grad = false gets no slot.
new_op_slots_if_grad(S, n, ins, ng) ==
    LET T == [S EXCEPT !.heap[n] = "live",
                       !.inputs[n] = ins,
                       !.consumers[n] = <<>>,
                       !.needs_grad[n] = IF ng THEN True ELSE False,
                       !.has_been_computed[n] = Indeterminate,
                       !.has_grad_been_computed[n] = Indeterminate,
                       !.output_tensor[n] = NoTensor,
                       !._grad_cache[n] = EmptyMap]
        RECURSIVE each(_, _)
        each(U, i) ==
            IF i > Len(ins) THEN U
            ELSE LET U1 == IF ng
                           THEN [add_consumer(U, ins[i], n) EXCEPT
                                    !._grad_cache[n] = map_insert(@, ins[i], NULL)]
                           ELSE U
                 IN  each(U1, i + 1)
    IN  default_context(each(T, 1), n)

\* Operation(inputs, needs_grad).
new_op(S, n, ins, ng) ==
    LET T == [S EXCEPT !.heap[n] = "live",
                       !.inputs[n] = ins,
                       !.consumers[n] = <<>>,
                       !.needs_grad[n] = IF ng THEN True ELSE False,
                       !.has_been_computed[n] = Indeterminate,
                       !.has_grad_been_computed[n] = Indeterminate,
                       !.output_tensor[n] = NoTensor,
                       !._grad_cache[n] = EmptyMap]
        RECURSIVE each(_, _)
        each(U, i) ==
            IF i > Len(ins) THEN U
            ELSE LET U1 == IF ng THEN add_consumer(U, ins[i], n) ELSE U
                     U2 == [U1 EXCEPT !._grad_cache[n] = map_insert(@, ins[i], NULL)]
                 IN  each(U2, i + 1)
    IN  default_context(each(T, 1), n)

(* ---- builder functions ------------------------------------------------ *)
\* The builder functions of the concrete node types: a variable is given
\* its shape; an elementwise operation validates that its inputs have one
\* shape, which becomes its own, and raises ShapeMismatch otherwise.
Compatible(S, ins) ==
    \A i, j \in 1..Len(ins) : S.output_shape[ins[i]] = S.output_shape[ins[j]]

build_var(S, n, shape) ==
    [new_leaf(S, n) EXCEPT !.output_shape[n] = shape]

\* A builder that validates in the body of the node's constructor, after
\* the base constructor ran.
build_op_late_check(S, n, ins, ng) ==
    LET T == new_op(S, n, ins, ng)
    IN  IF Compatible(S, ins)
        THEN [T EXCEPT !.output_shape[n] = S.output_shape[ins[1]]]
        ELSE [T EXCEPT !.err = ShapeMismatch]

build_op(S, n, ins, ng) ==
    IF Compatible(S, ins)
    THEN [new_op(S, n, ins, ng) EXCEPT !.output_shape[n] = S.output_shape[ins[1]]]
    ELSE [S EXCEPT !.err = ShapeMismatch]

(* ---- forward evaluation ----------------------------------------------- *)
\* eval(recompute) and the forward rule _eval of a concrete node type, which
\* evaluates each input with the same recompute argument and then writes the
\* node's output tensor.  The node `failing` (0 for none) is the one whose
\* forward rule raises; an error unwinds every caller.
RECURSIVE eval(_, _, _, _, _)
_eval(S, n, recompute, garbage, failing) ==
    LET RECURSIVE each(_, _)
        each(T, i) ==
            IF i > Len(S.inputs[n]) \/ T.err # NoError THEN T
            ELSE each(eval(T, S.inputs[n][i], recompute, garbage, failing), i + 1)
        T1 == each([S EXCEPT !.eval_calls[n] = @ + 1], 1)
    IN  IF T1.err # NoError THEN T1
        ELSE IF n = failing THEN [T1 EXCEPT !.err = ForwardError, !.ret = NULL]
        ELSE IF T1.output_tensor[n].id = NULL
        THEN [T1 EXCEPT !.output_tensor[n] = Tensor(n, nullptr, SettingsCublas),
                        !.ret = OutRef(n)]
        ELSE [T1 EXCEPT !.ret = T1.output_tensor[n].id]

\* eval with the cache test dropped: every call runs the forward rule.
eval_uncached(S, n, recompute, garbage, failing) ==
    _eval([S EXCEPT !.has_been_computed[n] = True],
          n, recompute, garbage, failing)

\* eval with the recompute argument ignored by the cache test.
eval_sticky(S, n, recompute, garbage, failing) ==
    IF /\ Read(S.has_been_computed[n], garbage)
       /\ S.output_tensor[n].id # NULL
    THEN [S EXCEPT !.ret = S.output_tensor[n].id]
    ELSE _eval([S EXCEPT !.has_been_computed[n] = True],
               n, recompute, garbage, failing)

\* eval that on a cache hit first brings the inputs up to date.
eval_refresh(S, n, recompute, garbage, failing) ==
    IF /\ ~recompute
       /\ Read(S.has_been_computed[n], garbage)
       /\ S.output_tensor[n].id # NULL
    THEN LET RECURSIVE each(_, _)
             each(T, i) ==
                 IF i > Len(S.inputs[n]) \/ T.err # NoError THEN T
                 ELSE each(eval(T, S.inputs[n][i], recompute, garbage, failing), i + 1)
             T1 == each(S, 1)
         IN  IF T1.err # NoError THEN T1
             ELSE [T1 EXCEPT !.ret = S.output_tensor[n].id]
    ELSE _eval([S EXCEPT !.has_been_computed[n] = True],
               n, recompute, garbage, failing)

eval(S, n, recompute, garbage, failing) ==
    IF /\ ~recompute
       /\ Read(S.has_been_computed[n], garbage)
       /\ S.output_tensor[n].id # NULL
    THEN [S EXCEPT !.ret = S.output_tensor[n].id]
    ELSE _eval([S EXCEPT !.has_been_computed[n] = True],
               n, recompute, garbage, failing)

\* reset that also drops the node's inputs.
reset_detach(S, n) ==
    [S EXCEPT !.has_been_computed[n] = False,
              !.has_grad_been_computed[n] = False,
              !.inputs[n] = <<>>]

\* reset with the forward flag left alone.
reset_grad_only(S, n) ==
    [S EXCEPT !.has_grad_been_computed[n] = False]

reset(S, n) ==
    [S EXCEPT !.has_been_computed[n] = False,
              !.has_grad_been_computed[n] = False]

(* ---- reverse-mode differentiation ------------------------------------- *)
\* The local gradient rule of a concrete node type: computes the node's
\* contribution and caches it under var.
_grad(S, n, consumer, var, g) ==
    [S EXCEPT !.grad_calls[n] = @ + 1,
              !._grad_cache[n] =
                  [x \in DOMAIN @ \cup {var} |-> IF x = var THEN GradRef(n, var) ELSE @[x]],
              !.ret = GradRef(n, var)]

\* grad with the cache lookup dropped: every call runs the local rule.
grad_uncached(S, n, consumer, var, g, recompute) ==
    _grad(S, n, consumer, var, g)

grad(S, n, consumer, var, g, recompute) ==
    IF ~recompute
    THEN LET T == [S EXCEPT !._grad_cache[n] = map_index(@, var)]
             r == T._grad_cache[n][var]
         IN  IF r # NULL THEN [T EXCEPT !.ret = r]
             ELSE _grad(T, n, consumer, var, g)
    ELSE _grad(S, n, consumer, var, g)

\* find(wrt)->second: dereferences end() when wrt is not a key.
get_grad_tensor(S, n, wrt, garbage) ==
    IF wrt \in DOMAIN S._grad_cache[n]
    THEN [S EXCEPT !.ret = S._grad_cache[n][wrt]]
    ELSE [S EXCEPT !.ub = TRUE, !.ret = garbage]

(* ---- destruction ------------------------------------------------------ *)
\* delete p: runs ~Operation, which deletes every input, then frees p.
\* Deleting a freed node is undefined; nothing more is modelled of that call.
\* delete with a destructor that leaves the inputs alone.
delete_shallow(S, n) ==
    IF S.ub THEN S
    ELSE IF S.heap[n] # "live"
    THEN [S EXCEPT !.ub = TRUE, !.delete_calls[n] = @ + 1]
    ELSE [S EXCEPT !.delete_calls[n] = @ + 1, !.heap[n] = "freed"]

RECURSIVE delete(_, _)
delete(S, n) ==
    IF S.ub THEN S
    ELSE IF S.heap[n] # "live"
    THEN [S EXCEPT !.ub = TRUE, !.delete_calls[n] = @ + 1]
    ELSE LET RECURSIVE each(_, _)
             each(T, i) == IF i > Len(S.inputs[n]) \/ T.ub THEN T
                           ELSE each(delete(T, S.inputs[n][i]), i + 1)
             T1 == each([S EXCEPT !.delete_calls[n] = @ + 1], 1)
         IN  IF T1.ub THEN T1 ELSE [T1 EXCEPT !.heap[n] = "freed"]

(* ---- threads ---------------------------------------------------------- *)
\* A thread runs one eval call as a stack of frames, one per node entered:
\* a frame is at the cache test of eval or inside the forward rule, at input
\* i.  The thread keeps the nodes it read or wrote, the forward rules it ran,
\* and what the call would do run alone from the state it started in.
Threads == 1..NumThreads

Frame(n, pc, i) == [node |-> n, pc |-> pc, i |-> i]

Idle == [root |-> 0, recompute |-> FALSE, garbage |-> FALSE, stack |-> <<>>,
         touched |-> {}, calls |-> Zero, ret |-> NULL, done |-> FALSE,
         alone |-> [ret |-> NULL,
                    has_been_computed |-> [m \in {} |-> Indeterminate],
                    output_tensor |-> [m \in {} |-> NoTensor],
                    eval_calls |-> [m \in {} |-> 0]]]

\* The call run alone: eval as one step from S.
Alone(S, n, recompute, garbage) ==
    LET E == eval(S, n, recompute, garbage, 0)
    IN  [ret |-> E.ret,
         has_been_computed |-> [m \in Reach(n) |-> E.has_been_computed[m]],
         output_tensor |-> [m \in Reach(n) |-> E.output_tensor[m]],
         eval_calls |-> [m \in Reach(n) |-> E.eval_calls[m]]]

\* The cache test of eval with the recompute argument ignored.
eval_hit_sticky(S, n, recompute, garbage) ==
    /\ Read(S.has_been_computed[n], garbage)
    /\ S.output_tensor[n].id # NULL

\* The cache test of eval.
eval_hit(S, n, recompute, garbage) ==
    /\ ~recompute
    /\ Read(S.has_been_computed[n], garbage)
    /\ S.output_tensor[n].id # NULL

\* The write of the forward rule: the output tensor, allocated when absent.
forward_write(S, n) ==
    IF S.output_tensor[n].id = NULL
    THEN [S EXCEPT !.output_tensor[n] = Tensor(n, nullptr, SettingsCublas)]
    ELSE S

(* ---- initial state ---------------------------------------------------- *)
Init ==
    /\ heap = [n \in Node |-> "unallocated"]
    /\ inputs = [n \in Node |-> <<>>]
    /\ consumers = [n \in Node |-> <<>>]
    /\ needs_grad = [n \in Node |-> Indeterminate]
    /\ output_shape = [n \in Node |-> <<>>]
    /\ has_been_computed = [n \in Node |-> Indeterminate]
    /\ has_grad_been_computed = [n \in Node |-> Indeterminate]
    /\ output_tensor = [n \in Node |-> NoTensor]
    /\ _grad_cache = [n \in Node |-> EmptyMap]
    /\ custream_ = [n \in Node |-> nullptr]
    /\ cudnn_handle_ = [n \in Node |-> nullptr]
    /\ cublas_handle_ = [n \in Node |-> nullptr]
    /\ async_ = [n \in Node |-> FALSE]
    /\ thread = [t \in Threads |-> Idle]
    /\ ub = FALSE
    /\ call = NoCall
    /\ ret = NULL
    /\ err = NoError
    /\ eval_calls = Zero
    /\ grad_calls = Zero
    /\ delete_calls = Zero

(* ---- operations ------------------------------------------------------- *)
\* The state after a member function ran: every member, and what the call
\* returned, raised and invoked.
Becomes(T) ==
    /\ heap' = T.heap
    /\ inputs' = T.inputs
    /\ consumers' = T.consumers
    /\ needs_grad' = T.needs_grad
    /\ output_shape' = T.output_shape
    /\ has_been_computed' = T.has_been_computed
    /\ has_grad_been_computed' = T.has_grad_been_computed
    /\ output_tensor' = T.output_tensor
    /\ _grad_cache' = T._grad_cache
    /\ custream_' = T.custream_
    /\ cudnn_handle_' = T.cudnn_handle_
    /\ cublas_handle_' = T.cublas_handle_
    /\ async_' = T.async_
    /\ UNCHANGED thread
    /\ ub' = T.ub
    /\ ret' = T.ret
    /\ err' = T.err
    /\ eval_calls' = T.eval_calls
    /\ grad_calls' = T.grad_calls
    /\ delete_calls' = T.delete_calls

Called(op, n, recompute, var) ==
    call' = [op |-> op, node |-> n, recompute |-> recompute, var |-> var,
             cuda_ctx |-> NoCtx]

\* A call is made on a live node; it stays inside live memory when every node
\* it reaches through input edges is live.
Usable(n) == ~ub /\ n \in Live /\ Reach(n) \subseteq Live

NextNode == Cardinality(Allocated) + 1

ConstructLeaf ==
    /\ ~ub
    /\ NextNode \in Node
    /\ Becomes(new_leaf(Here, NextNode))
    /\ Called("new", NextNode, FALSE, 0)

ConstructOp ==
    /\ ~ub
    /\ NextNode \in Node
    /\ \E ins \in InputLists, ng \in BOOLEAN :
          /\ \A i \in 1..Len(ins) : Reach(ins[i]) \subseteq Live
          /\ Becomes(new_op(Here, NextNode, ins, ng))
          /\ Called("new", NextNode, ng, 0)

\* A builder call; on ShapeMismatch no node comes into being.
BuildVar ==
    /\ ~ub
    /\ NextNode \in Node
    /\ \E shape \in Shapes : Becomes(build_var(Here, NextNode, shape))
    /\ Called("build", NextNode, FALSE, 0)

BuildOp ==
    /\ ~ub
    /\ NextNode \in Node
    /\ \E ins \in InputLists, ng \in BOOLEAN :
          /\ \A i \in 1..Len(ins) : Reach(ins[i]) \subseteq Live
          /\ Becomes(build_op(Here, NextNode, ins, ng))
          /\ Called("build", NextNode, ng, 0)

\* What a read of an indeterminate has_been_computed below n can yield.
Garbage(n) ==
    IF \E m \in Reach(n) : has_been_computed[m] = Indeterminate
    THEN BOOLEAN ELSE {FALSE}

Eval ==
    \E n \in Live, recompute \in BOOLEAN :
       /\ Usable(n)
       /\ \E garbage \in Garbage(n) :
          \E failing \in {0} \cup Reach(n) :
             /\ Becomes(eval(Here, n, recompute, garbage, failing))
             /\ Called("eval", n, recompute, 0)

Reset ==
    \E n \in Live :
       /\ Usable(n)
       /\ Becomes(reset(Here, n))
       /\ Called("reset", n, FALSE, 0)

\* The gradient tensors held by the caches; the model allows MaxGrads of them.
GradTensors(S) ==
    {<<n, v>> \in Node \X Node :
        v \in DOMAIN S._grad_cache[n] /\ S._grad_cache[n][v] # NULL}

Grad ==
    \E n \in Live, var \in Live, recompute \in BOOLEAN :
       /\ Usable(n)
       /\ \E consumer \in {n} \cup Range(consumers[n]) :
          LET T == grad(Here, n, consumer, var, Upstream, recompute)
          IN  /\ Cardinality(GradTensors(T)) <= MaxGrads
              /\ Becomes(T)
       /\ Called("grad", n, recompute, var)

GetGradTensor ==
    \E n \in Live, wrt \in Live, garbage \in {NULL, Upstream} :
       /\ Usable(n)
       /\ Becomes(get_grad_tensor(Here, n, wrt, garbage))
       /\ Called("get_grad_tensor", n, FALSE, wrt)

AddConsumer ==
    \E n \in Live, consumer \in Live :
       /\ Usable(n)
       /\ Len(consumers[n]) < MaxInputs
       /\ Becomes(add_consumer(Here, n, consumer))
       /\ Called("add_consumer", n, FALSE, consumer)

CudaExecContext ==
    \E n \in Live, cuda_ctx \in ExecContexts :
       /\ Usable(n)
       /\ Becomes(cuda_exec_context(Here, n, cuda_ctx))
       /\ call' = [op |-> "cuda_exec_context", node |-> n, recompute |-> FALSE,
                   var |-> 0, cuda_ctx |-> cuda_ctx]

\* set_async(async); the recompute field of the call record holds the flag.
SetAsync ==
    \E n \in Live, async \in BOOLEAN :
       /\ Usable(n)
       /\ Becomes(set_async(Here, n, async))
       /\ Called("set_async", n, async, 0)

\* A thread calls eval(recompute) on a node whose subgraph shares no node
\* with the subgraph another thread is working on.
ThreadStart ==
    \E t \in Threads, n \in Live, recompute \in BOOLEAN :
       /\ Usable(n)
       /\ thread[t].root = 0
       /\ \A u \in Threads \ {t} :
             thread[u].root # 0 => Reach(n) \cap Reach(thread[u].root) = {}
       /\ \E garbage \in Garbage(n) :
             thread' = [thread EXCEPT ![t] =
                          [Idle EXCEPT !.root = n,
                                       !.recompute = recompute,
                                       !.garbage = garbage,
                                       !.stack = <<Frame(n, "test", 0)>>,
                                       !.alone = Alone(Here, n, recompute, garbage)]]
       /\ UNCHANGED <<graph, fwd, bwd, ctx, ub, hist>>

\* The thread's next step of eval: the cache test and the write of the flag
\* (lines 112-115), the call of eval on the next input, or the write of the
\* output tensor and the return.
ThreadStep ==
    \E t \in Threads :
       /\ ~ub
       /\ thread[t].stack # <<>>
       /\ LET me == thread[t]
              depth == Len(me.stack)
              f == me.stack[depth]
              n == f.node
              caller == SubSeq(me.stack, 1, depth - 1)
              return(value) ==
                  [me EXCEPT !.stack = caller, !.ret = value,
                             !.touched = @ \cup {n},
                             !.done = (caller = <<>>)]
          IN  IF f.pc = "test"
              THEN IF eval_hit(Here, n, me.recompute, me.garbage)
                   THEN /\ thread' = [thread EXCEPT ![t] = return(output_tensor[n].id)]
                        /\ UNCHANGED fwd
                   ELSE /\ has_been_computed' = [has_been_computed EXCEPT ![n] = True]
                        /\ thread' = [thread EXCEPT ![t] =
                              [me EXCEPT !.stack[depth] = Frame(n, "body", 1),
                                         !.touched = @ \cup {n},
                                         !.calls[n] = @ + 1]]
                        /\ UNCHANGED output_tensor
              ELSE IF f.i <= Len(inputs[n])
                   THEN /\ thread' = [thread EXCEPT ![t] =
                              [me EXCEPT !.stack =
                                  Append([me.stack EXCEPT ![depth] =
                                             Frame(n, "body", f.i + 1)],
                                         Frame(inputs[n][f.i], "test", 0)),
                                         !.touched = @ \cup {n}]]
                        /\ UNCHANGED fwd
                   ELSE /\ output_tensor' = forward_write(Here, n).output_tensor
                        /\ thread' = [thread EXCEPT ![t] = return(OutRef(n))]
                        /\ UNCHANGED has_been_computed
       /\ UNCHANGED <<graph, bwd, ctx, ub, hist>>

\* The client takes the result of a finished call.
ThreadJoin ==
    \E t \in Threads :
       /\ thread[t].done
       /\ thread' = [thread EXCEPT ![t] = Idle]
       /\ UNCHANGED <<graph, fwd, bwd, ctx, ub, hist>>

Delete ==
    \E n \in Live :
       /\ ~ub
       /\ Becomes(delete(Here, n))
       /\ Called("delete", n, FALSE, 0)

\* A call on a live node that reaches a freed node through an input edge.
UseAfterFree ==
    /\ ~ub
    /\ \E n \in Live :
          /\ ~(Reach(n) \subseteq Live)
          /\ ub' = TRUE
          /\ Called("use_after_free", n, FALSE, 0)
          /\ UNCHANGED <<graph, fwd, bwd, ctx, thread, ret, err, eval_calls,
                         grad_calls, delete_calls>>

Next ==
    \/ ConstructLeaf
    \/ ConstructOp
    \/ BuildVar
    \/ BuildOp
    \/ Eval
    \/ Reset
    \/ Grad
    \/ GetGradTensor
    \/ AddConsumer
    \/ CudaExecContext
    \/ SetAsync
    \/ ThreadStart
    \/ ThreadStep
    \/ ThreadJoin
    \/ Delete
    \/ UseAfterFree

Spec == Init /\ [][Next]_vars

\* The operations of one concern at a time, over every graph the constructors
\* can build: each of these is explored exhaustively.

\* Graph construction and differentiation.
NextGrad == ConstructLeaf \/ ConstructOp \/ Grad \/ GetGradTensor \/ Reset
SpecGrad == Init /\ [][NextGrad]_vars

\* Graph construction and destruction.
NextOwn == ConstructLeaf \/ ConstructOp \/ Delete \/ UseAfterFree
SpecOwn == Init /\ [][NextOwn]_vars

\* Graph construction and execution-context propagation.
NextCtx == ConstructLeaf \/ ConstructOp \/ CudaExecContext
SpecCtx == Init /\ [][NextCtx]_vars

\* Graph construction, context propagation and the asynchronous flag.
NextAsync == ConstructLeaf \/ ConstructOp \/ CudaExecContext \/ SetAsync
SpecAsync == Init /\ [][NextAsync]_vars

\* Graph construction, forward evaluation and context propagation: the
\* contexts of cached output tensors.
NextTensor == ConstructLeaf \/ ConstructOp \/ Eval \/ CudaExecContext
SpecTensor == Init /\ [][NextTensor]_vars

\* Every operation that works on a built graph: the graph is built first,
\* then the member functions of one family are called on it in any order.
Building == call.op \in {"none", "new"}
After(family) == call.op \in {"new"} \cup family
NextFrame ==
    \/ Building /\ ConstructLeaf
    \/ Building /\ ConstructOp
    \/ After({"eval", "reset"}) /\ Eval
    \/ After({"eval", "reset"}) /\ Reset
    \/ After({"grad"}) /\ Grad
    \/ After({"add_consumer"}) /\ AddConsumer
    \/ After({"cuda_exec_context", "set_async"}) /\ CudaExecContext
    \/ After({"cuda_exec_context", "set_async"}) /\ SetAsync
SpecFrame == Init /\ [][NextFrame]_vars

\* Graph construction through the shape-validating builders.
NextBuild == BuildVar \/ BuildOp
SpecBuild == Init /\ [][NextBuild]_vars

\* Threads evaluating subgraphs that share no node; the graph is extended
\* while no thread is at work.
AllIdle == \A t \in Threads : thread[t].root = 0
NextThreads ==
    \/ AllIdle /\ ConstructLeaf
    \/ AllIdle /\ ConstructOp
    \/ ThreadStart
    \/ ThreadStep
    \/ ThreadJoin
SpecThreads == Init /\ [][NextThreads]_vars

\* Graph construction and forward evaluation.
NextEval == ConstructLeaf \/ ConstructOp \/ Eval \/ Reset
SpecEval == Init /\ [][NextEval]_vars

(* ---- forward evaluation: claims --------------------------------------- *)
\* The step is a call of eval(recompute) on node n.
EvalStep(n, recompute) ==
    /\ call'.op = "eval"
    /\ call'.node = n
    /\ call'.recompute = recompute

Cached(n) == has_been_computed[n] = True /\ output_tensor[n].id # NULL

\* C1: once evaluate has left a node computed with a non-null cached tensor,
\* evaluate(false) returns that tensor's reference, invokes no forward rule
\* and leaves the node cached, so the next evaluate(false) does the same; and
\* an evaluate(false) that directly follows an evaluate on the same node
\* which returned a tensor returns the same reference.
C1_CachedEvalIsStable ==
    [][\A n \in Node :
          /\ (Cached(n) /\ EvalStep(n, FALSE)) =>
                /\ ret' = output_tensor[n].id
                /\ err' = NoError
                /\ eval_calls' = Zero
                /\ has_been_computed'[n] = True
                /\ output_tensor'[n] = output_tensor[n]
          /\ (/\ call.op = "eval" /\ call.node = n
              /\ err = NoError /\ ret # NULL
              /\ EvalStep(n, FALSE)) =>
                (ret' = ret /\ eval_calls'[n] = 0)
    ]_vars

\* An evaluate(false) on a node with inputs was served from the cache.
C1_Witness ==
    /\ call.op = "eval" /\ ~call.recompute
    /\ inputs[call.node] # <<>>
    /\ ret = OutRef(call.node) /\ err = NoError
    /\ eval_calls = Zero

\* C2: evaluate(true) invokes the forward rule of the node it is called on
\* exactly once and leaves the node marked computed, whatever the node's
\* state was: never evaluated, cached, or reset.
C2_ForcedEvalRecomputes ==
    [][\A n \in Node :
          EvalStep(n, TRUE) =>
             /\ eval_calls'[n] = 1
             /\ has_been_computed'[n] = True
    ]_vars

\* An evaluate(true) on a node with inputs ran its forward rule once and
\* that of every input, and returned the node's tensor.
C2_Witness ==
    /\ call.op = "eval" /\ call.recompute
    /\ inputs[call.node] # <<>>
    /\ eval_calls[call.node] = 1
    /\ \A m \in Range(inputs[call.node]) : eval_calls[m] >= 1
    /\ ret = OutRef(call.node) /\ err = NoError

\* C3: after the terminal node t was evaluated, reset() on an intermediate
\* node m below it followed by evaluate(false) on t invokes the forward rule
\* of t (and of m) again.
C3_ResetPropagatesToTerminal ==
    [][\A t \in Node : \A m \in Reach(t) \ {t} :
          (/\ call.op = "reset" /\ call.node = m
           /\ inputs[m] # <<>>
           /\ Cached(t)
           /\ EvalStep(t, FALSE)) =>
             (eval_calls'[t] = 1 /\ eval_calls'[m] >= 1)
    ]_vars

\* C3 as amended: the invalidation does not propagate.  After reset() on an
\* intermediate node m below a cached terminal t, evaluate(false) on t
\* returns t's cached tensor, invokes no forward rule and leaves m not
\* computed.  The recomputation happens once t is invalidated too: with t and
\* its input m both reset, evaluate(false) on t that raises no error invokes
\* the forward rule of t once and that of m.
C3_ResetStaysLocal ==
    [][\A t \in Node : \A m \in Reach(t) \ {t} :
          /\ (/\ call.op = "reset" /\ call.node = m
              /\ Cached(t)
              /\ EvalStep(t, FALSE)) =>
                /\ eval_calls' = Zero
                /\ ret' = output_tensor[t].id
                /\ has_been_computed'[m] = False
          /\ (/\ has_been_computed[t] = False
              /\ has_been_computed[m] = False
              /\ m \in Range(inputs[t])
              /\ EvalStep(t, FALSE)
              /\ err' = NoError) =>
                (eval_calls'[t] = 1 /\ eval_calls'[m] >= 1)
    ]_vars

\* evaluate(false) on a terminal was served from its cache although an
\* intermediate node below it is reset and holds a stale tensor.
C3_Witness ==
    /\ call.op = "eval" /\ ~call.recompute
    /\ eval_calls = Zero /\ ret = OutRef(call.node)
    /\ \E m \in Reach(call.node) \ {call.node} :
          /\ inputs[m] # <<>>
          /\ has_been_computed[m] = False
          /\ output_tensor[m].id # NULL

(* ---- differentiation: claims ------------------------------------------ *)
\* The step is a call of grad(consumer, v, g, recompute) on node n.
GradStep(n, v, recompute) ==
    /\ call'.op = "grad"
    /\ call'.node = n
    /\ call'.var = v
    /\ call'.recompute = recompute

GradCached(n, v) == v \in DOMAIN _grad_cache[n] /\ _grad_cache[n][v] # NULL

ErrGradientTargetNotFound == "GradientTargetNotFound"

\* C4: gradient(c, v, g, false) on a node with no cached gradient for v
\* invokes the local gradient rule once and leaves its result in the cache
\* under v; with a cached gradient for v it returns that tensor, invokes no
\* local gradient rule and leaves the cache as it was.
C4_GradientCache ==
    [][\A n \in Node : \A v \in Node :
          /\ (~GradCached(n, v) /\ GradStep(n, v, FALSE)) =>
                /\ grad_calls'[n] = 1
                /\ ret' # NULL
                /\ v \in DOMAIN _grad_cache'[n]
                /\ _grad_cache'[n][v] = ret'
          /\ (GradCached(n, v) /\ GradStep(n, v, FALSE)) =>
                /\ grad_calls' = Zero
                /\ ret' = _grad_cache[n][v]
                /\ _grad_cache' = _grad_cache
    ]_vars

\* A gradient(c, v, g, false) for an input v of the node was served from
\* the gradient cache.
C4_Witness ==
    /\ call.op = "grad" /\ ~call.recompute
    /\ call.var \in Range(inputs[call.node])
    /\ grad_calls = Zero
    /\ ret = GradRef(call.node, call.var)
    /\ _grad_cache[call.node][call.var] = ret

\* C5: a gradient, or a cached gradient entry, requested for a variable that
\* is not an input of the node fails with GradientTargetNotFound, invokes no
\* local gradient rule and adds no cache entry for that variable.
C5_UnknownTargetFails ==
    [][\A n \in Node : \A v \in Node \ Range(inputs[n]) :
          (/\ call'.op \in {"grad", "get_grad_tensor"}
           /\ call'.node = n
           /\ call'.var = v) =>
             /\ err' = ErrGradientTargetNotFound
             /\ grad_calls' = Zero
             /\ _grad_cache' = _grad_cache
    ]_vars

\* C6: reset() returns the gradient of the node for each of its inputs to
\* uncached: a gradient(c, v, g, false) that follows reset() on the node
\* invokes the local gradient rule.
C6_ResetClearsGradients ==
    [][\A n \in Node : \A v \in Range(inputs[n]) :
          (/\ call.op = "reset" /\ call.node = n
           /\ GradStep(n, v, FALSE)) =>
             grad_calls'[n] = 1
    ]_vars

(* ---- graph structure: claims ------------------------------------------ *)
Count(s, x) == Cardinality({i \in 1..Len(s) : s[i] = x})

\* C7: with nodes made by the constructors only, a live node N is in the
\* consumer list of a live node I exactly when I is an input of N and N was
\* constructed with needs_grad = true, once per input edge; a node built
\* with needs_grad = false is in no consumer list.
C7_ConsumersIffNeedsGrad ==
    ~ub => \A N \in Live : \A I \in Live :
              Count(consumers[I], N) =
                  IF needs_grad[N] = True THEN Count(inputs[N], I) ELSE 0

\* Two nodes built over the same input, one with needs_grad and one without.
C7_Witness ==
    /\ ~ub
    /\ \E I \in Live : \E N \in Live : \E M \in Live :
          /\ I \in Range(inputs[N]) /\ I \in Range(inputs[M])
          /\ needs_grad[N] = True /\ needs_grad[M] = False
          /\ Range(consumers[I]) = {N}

\* C9: single ownership is structural: no node is an input of more than one
\* input edge of the live nodes a delete starts from, so no call of delete
\* runs a destructor twice on a node, or on a freed node, and no call reaches
\* a freed node through an input edge.
C9_NoDoubleDelete ==
    /\ ~ub
    /\ \A n \in Node : delete_calls[n] <= 1

\* Every node reachable from t is live and has at most one input.
IsChain(t) ==
    /\ Reach(t) \subseteq Live
    /\ \A n \in Reach(t) : Len(inputs[n]) <= 1

\* C10: delete of the terminal node t of a linear chain runs the destructor
\* once on each node of the chain and on no other node, frees exactly the
\* chain, and leaves every consumer list as it was.
C10_ChainDestruction ==
    [][\A t \in Node :
          (/\ IsChain(t)
           /\ call'.op = "delete" /\ call'.node = t) =>
             /\ ~ub'
             /\ delete_calls' = [n \in Node |-> IF n \in Reach(t) THEN 1 ELSE 0]
             /\ heap' = [n \in Node |-> IF n \in Reach(t) THEN "freed" ELSE heap[n]]
             /\ consumers' = consumers
    ]_vars

\* The terminal of a chain of three nodes, each a registered consumer of the
\* one before it, was deleted.
C10_Witness ==
    /\ call.op = "delete" /\ ~ub
    /\ Cardinality({n \in Node : delete_calls[n] = 1 /\ heap[n] = "freed"}) >= 3
    /\ \A n \in Reach(call.node) : Len(inputs[n]) <= 1
    /\ \E n \in Reach(call.node) : consumers[n] # <<>>

(* ---- execution context: claims ---------------------------------------- *)
\* C8: cuda_exec_context(ctx) on a node leaves every node reachable from it
\* through input edges with ctx's stream, cuBLAS handle and cuDNN handle; when
\* the call follows a cuda_exec_context on the same node with another
\* context, no reachable node keeps a field of that earlier context.
C8_ContextReachesSubgraph ==
    [][\A n \in Node :
          (call'.op = "cuda_exec_context" /\ call'.node = n) =>
             \A m \in Reach(n) :
                /\ custream_'[m] = call'.cuda_ctx.stream
                /\ cublas_handle_'[m] = call'.cuda_ctx.cublas_handle
                /\ cudnn_handle_'[m] = call'.cuda_ctx.cudnn_handle
                /\ (/\ call.op = "cuda_exec_context" /\ call.node = n
                    /\ call.cuda_ctx # call'.cuda_ctx) =>
                      /\ custream_'[m] # call.cuda_ctx.stream
                      /\ cublas_handle_'[m] # call.cuda_ctx.cublas_handle
                      /\ cudnn_handle_'[m] # call.cuda_ctx.cudnn_handle
    ]_vars

\* A context other than the first was applied to a node with two levels of
\* inputs below it.
C8_Witness ==
    /\ call.op = "cuda_exec_context"
    /\ call.cuda_ctx.stream = 2
    /\ \E m \in Range(inputs[call.node]) :
          /\ inputs[m] # <<>>
          /\ custream_[inputs[m][1]] = 2
          /\ cublas_handle_[inputs[m][1]] = SettingsCublas + 2
          /\ cudnn_handle_[inputs[m][1]] = SettingsCudnn + 2

(* ---- construction and state machine: claims --------------------------- *)
\* C11: right after Operation(inputs, needs_grad), the node's gradient cache
\* holds a null slot under each input that requires gradient, no slot under
\* an input that does not, and no slot under any other node.
C11_SlotsForGradInputsOnly ==
    call.op = "new" =>
       LET n == call.node IN
          /\ \A v \in DOMAIN _grad_cache[n] :
                v \in Range(inputs[n]) /\ _grad_cache[n][v] = NULL
          /\ \A v \in Range(inputs[n]) :
                /\ needs_grad[v] = True => v \in DOMAIN _grad_cache[n]
                /\ needs_grad[v] = False => v \notin DOMAIN _grad_cache[n]

\* C11 as amended: right after Operation(inputs, needs_grad), the node's
\* gradient cache holds exactly one slot, with a null value, under each of
\* its inputs, whether or not that input or the node requires gradient, and
\* no slot under any other node.
C11_SlotPerInput ==
    call.op = "new" =>
       /\ DOMAIN _grad_cache[call.node] = Range(inputs[call.node])
       /\ \A v \in DOMAIN _grad_cache[call.node] : _grad_cache[call.node][v] = NULL

\* A node was just built, without needs_grad, over two inputs of which one
\* does not require gradient: both have a slot.
C11_Witness ==
    /\ call.op = "new" /\ ~call.recompute
    /\ Cardinality(Range(inputs[call.node])) = 2
    /\ \E v \in Range(inputs[call.node]) : needs_grad[v] = False
    /\ DOMAIN _grad_cache[call.node] = Range(inputs[call.node])

\* C14: a node is Uninitialized (has_been_computed = false) when either
\* constructor returns, and no step other than an evaluate that runs through
\* the node makes it Computed.
C14_StartsUninitialized ==
    [][\A n \in Node :
          /\ (call'.op = "new" /\ call'.node = n) =>
                has_been_computed'[n] = False
          /\ (has_been_computed[n] # True /\ has_been_computed'[n] = True) =>
                (call'.op = "eval" /\ n \in Reach(call'.node))
    ]_vars

\* C15: an evaluate(false) that hits the cache changes no member of any node
\* (computed flags, output slots, gradient caches, consumer lists, inputs,
\* contexts) and calls evaluate on no input, whatever the inputs' flags are.
C15_CacheHitHasNoEffect ==
    [][\A n \in Node :
          (Cached(n) /\ EvalStep(n, FALSE)) =>
             /\ UNCHANGED <<graph, fwd, bwd, ctx>>
             /\ eval_calls' = Zero
             /\ err' = NoError
    ]_vars

\* An evaluate(false) on a node was served from the cache while one of its
\* direct inputs is not computed.
C15_Witness ==
    /\ call.op = "eval" /\ ~call.recompute
    /\ eval_calls = Zero /\ err = NoError /\ ret = OutRef(call.node)
    /\ \E m \in Range(inputs[call.node]) : has_been_computed[m] = False

\* C18: when the forward rule run by an evaluate on a node raised, the node
\* is not left Computed: an evaluate(false) on the node that follows invokes
\* the node's forward rule again.
C18_FailedEvalIsNotCached ==
    [][\A n \in Node :
          (/\ call.op = "eval" /\ call.node = n /\ err # NoError
           /\ EvalStep(n, FALSE)) =>
             eval_calls'[n] >= 1
    ]_vars

\* C19: a constructor call leaves the stream, the handles and the
\* asynchronous-dispatch flag of every node that existed before as they were.
C19_ConstructionKeepsContexts ==
    [][call'.op = "new" =>
          \A m \in Live :
             /\ custream_'[m] = custream_[m]
             /\ cudnn_handle_'[m] = cudnn_handle_[m]
             /\ cublas_handle_'[m] = cublas_handle_[m]
             /\ async_'[m] = async_[m]
    ]_vars

(* ---- asynchronous flag: claims ---------------------------------------- *)
\* Nodes a and b hold the same stream, handles and asynchronous flag.
SameContext(a, b) ==
    /\ custream_[a] = custream_[b]
    /\ cudnn_handle_[a] = cudnn_handle_[b]
    /\ cublas_handle_[a] = cublas_handle_[b]
    /\ async_[a] = async_[b]

\* C20: after cuda_exec_context or set_async on a node every node reachable
\* from it reports the same asynchronous flag, and in every state reached by
\* constructions and propagation calls all nodes of a node's subgraph hold
\* the same stream, handles and asynchronous flag.
C20_SubgraphsStayConsistent ==
    /\ call.op \in {"cuda_exec_context", "set_async"} =>
          \A m \in Reach(call.node) : async_[m] = async_[call.node]
    /\ \A t \in Live : \A m \in Reach(t) : SameContext(t, m)

\* C20 as amended: set_async(a) on a node writes a into every node reachable
\* from it and leaves streams and handles alone; cuda_exec_context writes the
\* stream and handles of ctx into every reachable node and leaves every
\* asynchronous flag alone; a constructor leaves every node reachable from
\* the new node with the default stream, the default handles and the flag
\* off. The subgraph of the node the call was made on is consistent in what
\* the call wrote; nodes outside it keep what they had.
C20_AsyncBroadcast ==
    [][LET n == call'.node IN
          /\ call'.op = "set_async" =>
                /\ \A m \in Node : async_'[m] =
                      IF m \in Reach(n) THEN call'.recompute ELSE async_[m]
                /\ UNCHANGED <<custream_, cudnn_handle_, cublas_handle_>>
          /\ call'.op = "cuda_exec_context" =>
                /\ async_' = async_
                /\ \A m \in Reach(n) :
                      /\ custream_'[m] = call'.cuda_ctx.stream
                      /\ cublas_handle_'[m] = call'.cuda_ctx.cublas_handle
                      /\ cudnn_handle_'[m] = call'.cuda_ctx.cudnn_handle
          /\ call'.op = "new" =>
                \A m \in {n} \cup UNION {Reach(i) : i \in Range(inputs'[n])} :
                   /\ async_'[m] = FALSE
                   /\ custream_'[m] = nullptr
                   /\ cublas_handle_'[m] = SettingsCublas
                   /\ cudnn_handle_'[m] = SettingsCudnn
    ]_vars

\* set_async(true) was called on a node with two distinct inputs and reached
\* both, in a graph holding a context applied before.
C20_Witness ==
    /\ call.op = "set_async" /\ call.recompute
    /\ Cardinality(Range(inputs[call.node])) = 2
    /\ \A m \in Reach(call.node) : async_[m]
    /\ \E m \in Reach(call.node) : custream_[m] # nullptr

(* ---- contexts of cached tensors: claims ------------------------------- *)
\* The library handles a tensor has been given: set_cublas_handle is the one
\* handle setter the node calls on its tensor.
TensorHandles(t) == {t.cublas_handle}

\* C16: after cuda_exec_context(ctx) on a node, the cached output tensor of
\* every node reachable from it carries the stream of ctx and both library
\* handles of ctx, the cuBLAS and the cuDNN one.
C16_TensorCarriesWholeContext ==
    call.op = "cuda_exec_context" =>
       \A m \in Reach(call.node) :
          output_tensor[m].id # NULL =>
             /\ output_tensor[m].custream = call.cuda_ctx.stream
             /\ TensorHandles(output_tensor[m]) =
                   {call.cuda_ctx.cublas_handle, call.cuda_ctx.cudnn_handle}

\* C16 as amended: after cuda_exec_context(ctx) on a node, the cached output
\* tensor of every node reachable from it carries the stream and the cuBLAS
\* handle of ctx, which are the node's own; the cuDNN handle is written to
\* the node only and the tensor is given no other handle.
C16_TensorCarriesStreamAndCublas ==
    call.op = "cuda_exec_context" =>
       \A m \in Reach(call.node) :
          output_tensor[m].id # NULL =>
             /\ output_tensor[m].custream = call.cuda_ctx.stream
             /\ output_tensor[m].custream = custream_[m]
             /\ output_tensor[m].cublas_handle = call.cuda_ctx.cublas_handle
             /\ output_tensor[m].cublas_handle = cublas_handle_[m]
             /\ call.cuda_ctx.cudnn_handle \notin TensorHandles(output_tensor[m])
             /\ cudnn_handle_[m] = call.cuda_ctx.cudnn_handle

\* A context was applied to a node with inputs, and it reached the cached
\* tensors of the node and of an input.
C16_Witness ==
    /\ call.op = "cuda_exec_context"
    /\ output_tensor[call.node].id # NULL
    /\ output_tensor[call.node].cublas_handle = call.cuda_ctx.cublas_handle
    /\ \E m \in Range(inputs[call.node]) :
          /\ output_tensor[m].id # NULL
          /\ output_tensor[m].custream = call.cuda_ctx.stream

(* ---- input lists: claims ---------------------------------------------- *)
\* The nodes reached from n by one to k input edges.
RECURSIVE Below(_, _)
Below(n, k) ==
    IF k = 0 THEN {}
    ELSE LET direct == Range(inputs[n])
         IN  direct \cup UNION {Below(m, k - 1) : m \in direct}

\* C17: no step changes the input list of a node that exists (evaluate,
\* reset, gradient, add_consumer and context propagation neither add, remove
\* nor reorder inputs), a constructor fills the list of the new node only,
\* and no node is reachable from itself through input edges.
C17_InputsFixedAndAcyclic ==
    [][/\ \A n \in Allocated : inputs'[n] = inputs[n]
       /\ \A n \in Node : n \notin Below(n, MaxNodes)'
    ]_vars

\* add_consumer was called on a node with one of the node's own inputs as
\* the consumer: the consumer lists now point both ways between the two.
C17_Witness ==
    /\ call.op = "add_consumer"
    /\ call.var \in Range(inputs[call.node])
    /\ call.node \in Range(consumers[call.var])
    /\ call.var \in Range(consumers[call.node])

====
